---- MODULE Spec2Model ----
(***************************************************************************)
(* Model of the dishwashing benchmark: the sequential strategy             *)
(* (sequential_dishwashing.py), the four-stage threaded pipeline           *)
(* (parallel_dishwashing.py) and the driver that runs one after the other  *)
(* (quick_test.py).                                                        *)
(*                                                                         *)
(* A dish is modelled by its dish_id; dish_type is drawn at random by the  *)
(* generator and never read by any stage, so it is not part of the state.  *)
(* queue.Queue is modelled by its buffer (queue) and its unfinished_tasks  *)
(* counter; put/get/task_done/join are atomic under the queue's mutex.     *)
(* Wall-clock time is abstracted to a number of ticks drawn when the       *)
(* elapsed time is computed.                                               *)
(***************************************************************************)
EXTENDS Integers, Sequences, FiniteSets

\* ---------------------------------------------------------------- bounds
\* Largest num_dishes handed to the constructors.
MaxDishes == 2
\* Largest elapsed wall-clock time, in ticks.
MaxElapsed == 1

\* ------------------------------------------------------------- constants
\* One worker thread and one queue per stage.
NumStages == 4

Stages == 1..NumStages

\* Dish.status values in workflow order; StatusOrder[1] is the constructor's.
StatusOrder == <<"dirty", "pre-rinsed", "washed", "dried", "stored">>

\* Mutant: the wash worker writes the dry worker's status.
TargetStatusCopyPaste(k) == IF k = 2 THEN "dried" ELSE StatusOrder[k + 1]

\* The status worker k (and sequential stage k) assigns to a dish.
TargetStatus(k) == StatusOrder[k + 1]

\* Position of a status in the workflow (1 = dirty .. 5 = stored).
StatusIndex(s) == CHOOSE i \in 1..Len(StatusOrder) : StatusOrder[i] = s

\* Mutant: task_done is called before the dish is handed on.
WorkerBodyAckFirst == <<"get", "set_status", "task_done", "put">>

\* Mutant: the dish is handed on before its status is set.
WorkerBodyPutFirst == <<"get", "put", "set_status", "task_done">>

\* The statements of one iteration of a worker's loop body, in program order.
WorkerBody == <<"get", "set_status", "put", "task_done">>

\* The statement that follows statement s of the loop body ("loop" = the
\* while test at the top of the loop).
After(s) ==
    LET i == CHOOSE j \in 1..Len(WorkerBody) : WorkerBody[j] = s
    IN  IF i < Len(WorkerBody) THEN WorkerBody[i + 1] ELSE "loop"

\* Mutant: the coordinator drains the queues last stage first.
JoinOrderReversed == <<4, 3, 2, 1>>

\* The order in which process_parallel joins the four queues.
JoinOrder == <<1, 2, 3, 4>>

\* Python's ZeroDivisionError, raised by / when the divisor is 0.
ZeroDivisionError == "ZeroDivisionError"

None == "None"

\* a / b on numbers: the quotient (kept as numerator and denominator), or the
\* exception the division raises.
Divide(a, b) ==
    [raised |-> IF b = 0 THEN ZeroDivisionError ELSE None, num |-> a, den |-> b]

VARIABLES
    driver,           \* "quick_test" (sequential, then parallel) or "main" (parallel alone)
    num_dishes,       \* the constructors' num_dishes
    seq_pc,           \* process_sequential: "idle", "run", "returned", "fault"
    seq_idx,          \* process_sequential: the dish the for loop is at
    seq_stage,        \* process_sequential: the next stage call for that dish
    seq_status,       \* SequentialDishwasher.dishes[d].status
    seq_result,       \* process_sequential's return value, <<>> while there is none
    status,           \* ParallelDishwasher.dishes[d].status
    history,          \* every value assigned to dishes[d].status, in order
    queue,            \* queue_1..queue_4: the buffered dishes
    unfinished_tasks, \* queue_1..queue_4: Queue.unfinished_tasks
    completed_dishes, \* ParallelDishwasher.completed_dishes
    stop_event,       \* ParallelDishwasher.stop_event
    wpc,              \* each worker thread's position
    dish,             \* each worker's local variable dish (0 = unbound)
    cpc,              \* process_parallel's position
    cidx,             \* process_parallel: loop counter of the loop it is in
    metrics,          \* process_parallel: the locals computed after the run, <<>> before
    result,           \* process_parallel's return value, <<>> while there is none
    n_put,            \* number of put calls on each queue so far
    n_get,            \* number of successful get calls on each queue so far
    n_task_done,      \* number of task_done calls on each queue so far
    put_log,          \* the dishes put into each queue so far, in call order
    get_log,          \* the dishes got from each queue so far, in call order
    wlast             \* what each worker did just before its latest while test:
                      \* "start" (nothing), "empty" (a get that timed out) or
                      \* "task_done" (the end of the loop body); "body" inside the body

vars == <<driver, num_dishes, seq_pc, seq_idx, seq_stage, seq_status, seq_result,
          status, history, queue, unfinished_tasks, completed_dishes, stop_event,
          wpc, dish, cpc, cidx, metrics, result, n_put, n_get, n_task_done,
          put_log, get_log, wlast>>

seq_vars == <<seq_pc, seq_idx, seq_stage, seq_status, seq_result>>

par_vars == <<status, history, queue, unfinished_tasks, completed_dishes, stop_event,
              wpc, dish, cpc, cidx, metrics, result, n_put, n_get, n_task_done,
          put_log, get_log, wlast>>

Dishes == 1..num_dishes

\* The elapsed times a run over num_dishes dishes can measure: every dish
\* sleeps in every stage, so only a run without dishes can measure 0.
ElapsedTimes == IF num_dishes = 0 THEN 0..MaxElapsed ELSE 1..MaxElapsed

\* ------------------------------------------------------------------ Init
Init ==
    /\ driver \in {"quick_test", "main"}
    /\ num_dishes \in 0..MaxDishes
    /\ seq_pc = IF driver = "quick_test" THEN "run" ELSE "idle"
    /\ seq_idx = 1
    /\ seq_stage = 1
    /\ seq_status = [d \in Dishes |-> StatusOrder[1]]
    /\ seq_result = <<>>
    /\ status = [d \in Dishes |-> StatusOrder[1]]
    /\ history = [d \in Dishes |-> <<StatusOrder[1]>>]
    /\ queue = [q \in Stages |-> <<>>]
    /\ unfinished_tasks = [q \in Stages |-> 0]
    /\ completed_dishes = <<>>
    /\ stop_event = FALSE
    /\ wpc = [k \in Stages |-> "not_started"]
    /\ dish = [k \in Stages |-> 0]
    /\ cpc = "idle"
    /\ cidx = 0
    /\ metrics = <<>>
    /\ result = <<>>
    /\ n_put = [q \in Stages |-> 0]
    /\ n_get = [q \in Stages |-> 0]
    /\ n_task_done = [q \in Stages |-> 0]
    /\ put_log = [q \in Stages |-> <<>>]
    /\ get_log = [q \in Stages |-> <<>>]
    /\ wlast = [k \in Stages |-> "start"]

\* -------------------------------------------------- sequential strategy
\* One stage call of the for loop's body: pre_rinse, wash, dry or store.
SeqStage ==
    /\ seq_pc = "run"
    /\ seq_idx <= num_dishes
    /\ seq_status' = [seq_status EXCEPT ![seq_idx] = TargetStatus(seq_stage)]
    /\ IF seq_stage < NumStages
       THEN seq_stage' = seq_stage + 1 /\ seq_idx' = seq_idx
       ELSE seq_stage' = 1 /\ seq_idx' = seq_idx + 1
    /\ UNCHANGED <<seq_pc, seq_result, driver, num_dishes>>
    /\ UNCHANGED par_vars

\* After the loop: the metrics and the return value.
SeqReturn ==
    /\ seq_pc = "run"
    /\ seq_idx > num_dishes
    /\ \E e \in ElapsedTimes :
        LET throughput == Divide(num_dishes, e)
            avg_time_per_dish == Divide(e, num_dishes)
        IN  IF \/ throughput.raised = ZeroDivisionError
               \/ avg_time_per_dish.raised = ZeroDivisionError
            THEN seq_pc' = "fault" /\ seq_result' = seq_result
            ELSE /\ seq_pc' = "returned"
                 /\ seq_result' = <<[execution_time |-> e,
                                     throughput |-> throughput,
                                     avg_time_per_dish |-> avg_time_per_dish,
                                     dishes_processed |-> num_dishes]>>
    /\ UNCHANGED <<seq_idx, seq_stage, seq_status, driver, num_dishes>>
    /\ UNCHANGED par_vars

\* ------------------------------------------------------- queue.Queue
\* Mutant: put adds the dish at the front of the buffer.
PutFront(q, d) ==
    /\ queue' = [queue EXCEPT ![q] = <<d>> \o @]
    /\ unfinished_tasks' = [unfinished_tasks EXCEPT ![q] = @ + 1]
    /\ n_put' = [n_put EXCEPT ![q] = @ + 1]
    /\ put_log' = [put_log EXCEPT ![q] = Append(@, d)]
    /\ UNCHANGED <<n_get, n_task_done, get_log>>

\* Queue.put(d) on queue q: append to the buffer, count one unfinished task.
Put(q, d) ==
    /\ queue' = [queue EXCEPT ![q] = Append(@, d)]
    /\ unfinished_tasks' = [unfinished_tasks EXCEPT ![q] = @ + 1]
    /\ n_put' = [n_put EXCEPT ![q] = @ + 1]
    /\ put_log' = [put_log EXCEPT ![q] = Append(@, d)]
    /\ UNCHANGED <<n_get, n_task_done, get_log>>

\* Mutant: a successful get also counts the task as finished.
GetAlsoAcks(k, q) ==
    /\ dish' = [dish EXCEPT ![k] = Head(queue[q])]
    /\ queue' = [queue EXCEPT ![q] = Tail(@)]
    /\ unfinished_tasks' = [unfinished_tasks EXCEPT ![q] = @ - 1]
    /\ n_get' = [n_get EXCEPT ![q] = @ + 1]
    /\ get_log' = [get_log EXCEPT ![q] = Append(@, Head(queue[q]))]
    /\ UNCHANGED <<n_put, n_task_done, put_log>>

\* Mutant: get takes the newest dish of the buffer (a LIFO queue).
GetLast(k, q) ==
    /\ dish' = [dish EXCEPT ![k] = queue[q][Len(queue[q])]]
    /\ queue' = [queue EXCEPT ![q] = SubSeq(@, 1, Len(@) - 1)]
    /\ n_get' = [n_get EXCEPT ![q] = @ + 1]
    /\ get_log' = [get_log EXCEPT ![q] = Append(@, queue[q][Len(queue[q])])]
    /\ UNCHANGED <<unfinished_tasks, n_put, n_task_done, put_log>>

\* Queue.get on a non-empty queue q by worker k: the head of the buffer is
\* bound to the worker's dish; unfinished_tasks is left alone.
Get(k, q) ==
    /\ dish' = [dish EXCEPT ![k] = Head(queue[q])]
    /\ queue' = [queue EXCEPT ![q] = Tail(@)]
    /\ n_get' = [n_get EXCEPT ![q] = @ + 1]
    /\ get_log' = [get_log EXCEPT ![q] = Append(@, Head(queue[q]))]
    /\ UNCHANGED <<unfinished_tasks, n_put, n_task_done, put_log>>

\* Queue.task_done on queue q (called with unfinished_tasks > 0).
TaskDone(q) ==
    /\ unfinished_tasks' = [unfinished_tasks EXCEPT ![q] = @ - 1]
    /\ n_task_done' = [n_task_done EXCEPT ![q] = @ + 1]
    /\ UNCHANGED <<queue, n_put, n_get, put_log, get_log>>

\* Mutant: join returns without waiting.
JoinReturnsAtOnce(q) == TRUE

\* Queue.join on queue q returns once unfinished_tasks is 0.
JoinReturns(q) == unfinished_tasks[q] = 0

\* ------------------------------------------------------ stage workers
\* Mutant: except Empty: break.
OnEmptyBreak == "done"

\* except Empty: continue -- back to the while test.
OnEmpty == "loop"

\* while not self.stop_event.is_set():
WLoopTest(k) ==
    /\ wpc[k] = "loop"
    /\ wpc' = [wpc EXCEPT ![k] = IF stop_event THEN "done" ELSE WorkerBody[1]]
    /\ wlast' = [wlast EXCEPT ![k] = IF stop_event THEN @ ELSE "body"]
    /\ UNCHANGED <<status, history, queue, unfinished_tasks, completed_dishes,
                   stop_event, dish, cpc, cidx, metrics, result,
                   n_put, n_get, n_task_done,
                   put_log, get_log>>
    /\ UNCHANGED <<driver, num_dishes>> /\ UNCHANGED seq_vars

\* dish = self.queue_k.get(timeout=0.1): the head of a non-empty queue, or
\* Empty after the timeout on an empty one (except Empty: continue).
WGet(k) ==
    /\ wpc[k] = "get"
    /\ IF queue[k] # <<>>
       THEN /\ Get(k, k)
            /\ wpc' = [wpc EXCEPT ![k] = After("get")]
            /\ UNCHANGED wlast
       ELSE /\ wpc' = [wpc EXCEPT ![k] = OnEmpty]
            /\ wlast' = [wlast EXCEPT ![k] = "empty"]
            /\ UNCHANGED <<dish, queue, unfinished_tasks, n_put, n_get, n_task_done,
                   put_log, get_log>>
    /\ UNCHANGED <<status, history, completed_dishes, stop_event, cpc, cidx,
                   metrics, result>>
    /\ UNCHANGED <<driver, num_dishes>> /\ UNCHANGED seq_vars

\* time.sleep(...); dish.status = <this stage's status>
WSetStatus(k) ==
    /\ wpc[k] = "set_status"
    /\ status' = [status EXCEPT ![dish[k]] = TargetStatus(k)]
    /\ history' = [history EXCEPT ![dish[k]] = Append(@, TargetStatus(k))]
    /\ wpc' = [wpc EXCEPT ![k] = After("set_status")]
    /\ wlast' = [wlast EXCEPT ![k] = IF After("set_status") = "loop" THEN "set_status" ELSE @]
    /\ UNCHANGED <<queue, unfinished_tasks, completed_dishes, stop_event, dish,
                   cpc, cidx, metrics, result, n_put, n_get, n_task_done,
                   put_log, get_log>>
    /\ UNCHANGED <<driver, num_dishes>> /\ UNCHANGED seq_vars

\* self.queue_<k+1>.put(dish), or for the store worker
\* with self.completion_lock: self.completed_dishes.append(dish)
WPut(k) ==
    /\ wpc[k] = "put"
    /\ IF k < NumStages
       THEN /\ Put(k + 1, dish[k])
            /\ UNCHANGED completed_dishes
       ELSE /\ completed_dishes' = Append(completed_dishes, dish[k])
            /\ UNCHANGED <<queue, unfinished_tasks, n_put, n_get, n_task_done,
                   put_log, get_log>>
    /\ wpc' = [wpc EXCEPT ![k] = After("put")]
    /\ wlast' = [wlast EXCEPT ![k] = IF After("put") = "loop" THEN "put" ELSE @]
    /\ UNCHANGED <<status, history, stop_event, dish, cpc, cidx, metrics, result>>
    /\ UNCHANGED <<driver, num_dishes>> /\ UNCHANGED seq_vars

\* self.queue_k.task_done(); called once too often it raises ValueError,
\* which no handler of the worker catches: the thread ends.
WTaskDone(k) ==
    /\ wpc[k] = "task_done"
    /\ wlast' = [wlast EXCEPT ![k] = IF After("task_done") = "loop" THEN "task_done" ELSE @]
    /\ IF unfinished_tasks[k] > 0
       THEN /\ TaskDone(k)
            /\ wpc' = [wpc EXCEPT ![k] = After("task_done")]
       ELSE /\ wpc' = [wpc EXCEPT ![k] = "ValueError"]
            /\ UNCHANGED <<queue, unfinished_tasks, n_put, n_get, n_task_done,
                   put_log, get_log>>
    /\ UNCHANGED <<status, history, completed_dishes, stop_event, dish, cpc, cidx,
                   metrics, result>>
    /\ UNCHANGED <<driver, num_dishes>> /\ UNCHANGED seq_vars

Worker(k) ==
    \/ WLoopTest(k)
    \/ WGet(k)
    \/ WSetStatus(k)
    \/ WPut(k)
    \/ WTaskDone(k)

\* ------------------------------------------------------ process_parallel
\* The driver calls process_parallel: at once in main(), after
\* process_sequential has returned in quick_test().
ParStart ==
    /\ cpc = "idle"
    /\ driver = "main" \/ seq_pc = "returned"
    /\ cpc' = "start_threads"
    /\ cidx' = 1
    /\ UNCHANGED <<status, history, queue, unfinished_tasks, completed_dishes,
                   stop_event, wpc, wlast, dish, metrics, result, n_put, n_get, n_task_done,
                   put_log, get_log>>
    /\ UNCHANGED <<driver, num_dishes>> /\ UNCHANGED seq_vars

\* Mutant: the feed loop stops one dish early.
FeedAtOffByOne(i) == IF i < num_dishes THEN "feed" ELSE "join"

\* Where the coordinator stands once the feed loop is at dish i.
FeedAt(i) == IF i <= num_dishes THEN "feed" ELSE "join"

\* for thread in threads: thread.start(); the last start is followed by the
\* feed loop.
StartThread ==
    /\ cpc = "start_threads"
    /\ wpc' = [wpc EXCEPT ![cidx] = "loop"]
    /\ IF cidx < NumStages
       THEN cidx' = cidx + 1 /\ cpc' = cpc
       ELSE cidx' = 1 /\ cpc' = FeedAt(1)
    /\ UNCHANGED <<status, history, queue, unfinished_tasks, completed_dishes,
                   stop_event, wlast, dish, metrics, result, n_put, n_get, n_task_done,
                   put_log, get_log>>
    /\ UNCHANGED <<driver, num_dishes>> /\ UNCHANGED seq_vars

\* for idx, dish in enumerate(self.dishes, 1): self.queue_1.put(dish)
Feed ==
    /\ cpc = "feed"
    /\ Put(1, cidx)
    /\ cpc' = FeedAt(cidx + 1)
    /\ cidx' = IF cidx + 1 <= num_dishes THEN cidx + 1 ELSE 1
    /\ UNCHANGED <<status, history, completed_dishes, stop_event, wpc, wlast, dish,
                   metrics, result>>
    /\ UNCHANGED <<driver, num_dishes>> /\ UNCHANGED seq_vars

\* self.queue_1.join() ... self.queue_4.join(): the cidx-th join returns.
Join ==
    /\ cpc = "join"
    /\ JoinReturns(JoinOrder[cidx])
    /\ IF cidx < Len(JoinOrder)
       THEN cidx' = cidx + 1 /\ cpc' = cpc
       ELSE cidx' = 1 /\ cpc' = "set_stop"
    /\ UNCHANGED <<status, history, queue, unfinished_tasks, completed_dishes,
                   stop_event, wpc, wlast, dish, metrics, result, n_put, n_get, n_task_done,
                   put_log, get_log>>
    /\ UNCHANGED <<driver, num_dishes>> /\ UNCHANGED seq_vars

\* self.stop_event.set()
SetStop ==
    /\ cpc = "set_stop"
    /\ stop_event' = TRUE
    /\ cpc' = "join_threads"
    /\ cidx' = 1
    /\ UNCHANGED <<status, history, queue, unfinished_tasks, completed_dishes,
                   wpc, wlast, dish, metrics, result, n_put, n_get, n_task_done,
                   put_log, get_log>>
    /\ UNCHANGED <<driver, num_dishes>> /\ UNCHANGED seq_vars

\* for thread in threads: thread.join(timeout=1.0): returns when the thread
\* has ended or when the timeout expires, whichever comes first.
JoinThread ==
    /\ cpc = "join_threads"
    /\ IF cidx < NumStages
       THEN cidx' = cidx + 1 /\ cpc' = cpc
       ELSE cidx' = 0 /\ cpc' = "metrics"
    /\ UNCHANGED <<status, history, queue, unfinished_tasks, completed_dishes,
                   stop_event, wpc, wlast, dish, metrics, result, n_put, n_get, n_task_done,
                   put_log, get_log>>
    /\ UNCHANGED <<driver, num_dishes>> /\ UNCHANGED seq_vars

\* elapsed_time, dishes_completed, throughput, avg_time_per_dish
Metrics ==
    /\ cpc = "metrics"
    /\ \E e \in ElapsedTimes :
        LET dishes_completed == Len(completed_dishes)
            throughput == Divide(dishes_completed, e)
            avg_time_per_dish ==
                IF dishes_completed > 0 THEN Divide(e, dishes_completed)
                                        ELSE Divide(0, 1)
        IN  IF throughput.raised = ZeroDivisionError
            THEN cpc' = "fault" /\ metrics' = metrics
            ELSE /\ cpc' = "report"
                 /\ metrics' = <<[execution_time |-> e,
                                  throughput |-> throughput,
                                  avg_time_per_dish |-> avg_time_per_dish,
                                  dishes_processed |-> dishes_completed]>>
    /\ UNCHANGED <<status, history, queue, unfinished_tasks, completed_dishes,
                   stop_event, wpc, wlast, dish, cidx, result, n_put, n_get, n_task_done,
                   put_log, get_log>>
    /\ UNCHANGED <<driver, num_dishes>> /\ UNCHANGED seq_vars

\* The results display, whose last line prints
\* (dishes_completed/self.num_dishes)*100, and then the return statement.
Report ==
    /\ cpc = "report"
    /\ LET efficiency == Divide(metrics[1].dishes_processed, num_dishes)
       IN  IF efficiency.raised = ZeroDivisionError
           THEN cpc' = "fault" /\ result' = result
           ELSE cpc' = "returned" /\ result' = metrics
    /\ UNCHANGED <<status, history, queue, unfinished_tasks, completed_dishes,
                   stop_event, wpc, wlast, dish, cidx, metrics, n_put, n_get, n_task_done,
                   put_log, get_log>>
    /\ UNCHANGED <<driver, num_dishes>> /\ UNCHANGED seq_vars

Coordinator ==
    \/ ParStart
    \/ StartThread
    \/ Feed
    \/ Join
    \/ SetStop
    \/ JoinThread
    \/ Metrics
    \/ Report

Sequential ==
    \/ SeqStage
    \/ SeqReturn

\* ---------------------------------------------------------------- Spec
Next ==
    \/ SeqStage
    \/ SeqReturn
    \/ ParStart
    \/ StartThread
    \/ Feed
    \/ Join
    \/ SetStop
    \/ JoinThread
    \/ Metrics
    \/ Report
    \/ \E k \in Stages : WLoopTest(k)
    \/ \E k \in Stages : WGet(k)
    \/ \E k \in Stages : WSetStatus(k)
    \/ \E k \in Stages : WPut(k)
    \/ \E k \in Stages : WTaskDone(k)

Spec == Init /\ [][Next]_vars

\* The interpreter schedules every thread that can run: the main thread
\* (driver and coordinator) and each worker thread.
FairSpec ==
    /\ Spec
    /\ WF_vars(Sequential \/ Coordinator)
    /\ \A k \in Stages : WF_vars(Worker(k))

\* ============================================================== claims
\* The coordinator's positions after the fourth join has returned.
AfterDrains == {"set_stop", "join_threads", "metrics", "report", "returned", "fault"}

\* The place of queue q in the coordinator's join sequence.
JoinPosition(q) == CHOOSE i \in 1..Len(JoinOrder) : JoinOrder[i] = q

\* The coordinator's join of queue q has returned.
JoinPassed(q) == cpc \in AfterDrains \/ (cpc = "join" /\ JoinPosition(q) < cidx)

\* Worker k holds a dequeued dish it has not yet acknowledged.
Holds(k) == wpc[k] \in {"set_status", "put", "task_done"}

\* The dishes in completed_dishes.
Completed == {completed_dishes[i] : i \in 1..Len(completed_dishes)}

\* C1: for num_dishes >= 1, when process_parallel has returned,
\* completed_dishes holds every dish fed into queue_1 exactly once (none
\* missing, none twice) and dishes_processed equals num_dishes.
C1_NoLossNoDuplicate ==
    (cpc = "returned" /\ num_dishes >= 1) =>
        /\ Len(completed_dishes) = num_dishes
        /\ Completed = Dishes
        /\ n_put[1] = num_dishes
        /\ result[1].dishes_processed = num_dishes

\* A run over several dishes has returned.
C1_Witness == cpc = "returned" /\ num_dishes >= 2 /\ Len(completed_dishes) >= 2

\* C2: the values assigned to a dish's status are, in order, a prefix of
\* dirty, pre-rinsed, washed, dried, stored (no stage skipped, repeated or
\* undone), every worker takes every dish once, and every dish is stored when
\* process_parallel has returned.
C2_StatusForward ==
    /\ \A d \in Dishes :
        /\ Len(history[d]) <= Len(StatusOrder)
        /\ \A i \in 1..Len(history[d]) : history[d][i] = StatusOrder[i]
        /\ status[d] = history[d][Len(history[d])]
    /\ \A k \in Stages : n_get[k] <= num_dishes
    /\ cpc = "returned" =>
        /\ \A d \in Dishes : status[d] = "stored" /\ history[d] = StatusOrder
        /\ \A k \in Stages : n_get[k] = num_dishes

\* A run has returned with a dish that went through all four stages.
C2_Witness ==
    /\ cpc = "returned"
    /\ num_dishes >= 1
    /\ \A d \in Dishes : Len(history[d]) = Len(StatusOrder)

\* C3: in every state after the fourth join has returned, all four queues
\* have unfinished_tasks = 0 and an empty buffer.
C3_AllDrained ==
    cpc \in AfterDrains =>
        \A q \in Stages : unfinished_tasks[q] = 0 /\ queue[q] = <<>>

\* The fourth join has just returned in a run that carried dishes.
C3_Witness == cpc = "set_stop" /\ num_dishes >= 2 /\ n_task_done[4] = num_dishes

\* C4: with num_dishes = 0 process_parallel returns and no step of it ends
\* in a division by zero.
C4_ZeroDishesNoFault == num_dishes = 0 => cpc # "fault"

\* C5: under fair scheduling a started run of process_parallel returns.
C5_RunFinishes == (cpc = "start_threads") ~> (cpc = "returned")

\* C5 for runs that carry at least one dish.
C5_RunWithDishesFinishes ==
    (cpc = "start_threads" /\ num_dishes >= 1) ~> (cpc = "returned")

\* C6: for each queue, unfinished_tasks is >= 0 and equals puts minus
\* task_done calls; a get alone does not decrement it; task_done is called
\* once per dequeued dish (never without one, so never a ValueError); and it
\* is 0 exactly when every dish put so far has been dequeued and acknowledged,
\* so it is not 0 while the queue's worker holds an unacknowledged dish.
C6_PendingCount ==
    \A q \in Stages :
        /\ unfinished_tasks[q] >= 0
        /\ unfinished_tasks[q] = n_put[q] - n_task_done[q]
        /\ wpc[q] # "ValueError"
        /\ n_get[q] <= n_put[q]
        /\ n_task_done[q] = n_get[q] - (IF Holds(q) THEN 1 ELSE 0)
        /\ unfinished_tasks[q] = 0 <=>
               (n_get[q] = n_put[q] /\ n_task_done[q] = n_put[q])
        /\ unfinished_tasks[q] = 0 => ~Holds(q) /\ queue[q] = <<>>

\* A worker holds a dequeued dish while its queue's buffer is empty: only
\* the pending count keeps a join of that queue from returning.
C6_Witness ==
    \E q \in Stages :
        /\ Holds(q)
        /\ queue[q] = <<>>
        /\ unfinished_tasks[q] = 1
        /\ n_task_done[q] >= 1

\* C7: when process_sequential and process_parallel have both returned for
\* the same dishes, every dish is stored in both and both report
\* dishes_processed = num_dishes.
C7_SameResult ==
    (seq_pc = "returned" /\ cpc = "returned") =>
        /\ \A d \in Dishes : seq_status[d] = "stored" /\ status[d] = seq_status[d]
        /\ seq_result[1].dishes_processed = num_dishes
        /\ result[1].dishes_processed = seq_result[1].dishes_processed

\* quick_test has run both strategies over several dishes.
C7_Witness ==
    /\ driver = "quick_test"
    /\ seq_pc = "returned"
    /\ cpc = "returned"
    /\ num_dishes >= 2

\* C8: a worker that has left its loop has an input queue with an empty
\* buffer and unfinished_tasks = 0.
C8_ExitedWorkerQueueEmpty ==
    \A k \in Stages :
        wpc[k] = "done" => queue[k] = <<>> /\ unfinished_tasks[k] = 0

\* A worker has left its loop after dishes went through its queue.
C8_Witness == \E k \in Stages : wpc[k] = "done" /\ n_task_done[k] >= 2

\* C9: once the coordinator's join of queue q has returned, nothing is put
\* into queue q any more.
C9_NoPutAfterJoin ==
    [][\A q \in Stages : JoinPassed(q) => n_put'[q] = n_put[q] /\ queue'[q] = queue[q]]_vars

\* The join of queue_2 has returned, all dishes having gone through it, while
\* later stages are still at work.
C9_Witness ==
    /\ cpc = "join"
    /\ JoinPassed(2)
    /\ n_put[2] = num_dishes
    /\ num_dishes >= 2
    /\ Len(completed_dishes) < num_dishes

\* C10: a worker hands each dish on before it acknowledges it, so when the
\* join of queue q has returned every fed dish has been put into queue q+1
\* (appended to completed_dishes for q = 4) and has at least stage q's status.
\* (What is not guaranteed is shown by C10_Witness.)
C10_HandOffBeforeAck ==
    /\ \A k \in Stages :
        n_task_done[k] <= (IF k < NumStages THEN n_put[k + 1] ELSE Len(completed_dishes))
    /\ \A q \in Stages :
        JoinPassed(q) =>
            /\ n_put[1] = num_dishes
            /\ IF q < NumStages THEN n_put[q + 1] = num_dishes
                                ELSE Len(completed_dishes) = num_dishes
            /\ \A d \in Dishes : StatusIndex(status[d]) >= StatusIndex(TargetStatus(q))

\* The join of queue_1 has returned while completed_dishes is still smaller
\* than num_dishes and a later stage has not yet seen some dish.
C10_Witness ==
    /\ JoinPassed(1)
    /\ ~JoinPassed(2)
    /\ Len(completed_dishes) < num_dishes
    /\ \E d \in Dishes : status[d] = TargetStatus(1)

\* C11: stop_event is false until all four joins have returned in stage
\* order; it changes only in the coordinator's stop_event.set(), from false
\* to true, in a state where all four queues have unfinished_tasks = 0 and
\* completed_dishes holds num_dishes dishes; it is never cleared or set again.
C11_StopSetOnceAfterDrains ==
    /\ [](stop_event <=> cpc \in (AfterDrains \ {"set_stop"}))
    /\ [](~stop_event /\ cpc = "join" =>
            \A i \in 1..Len(JoinOrder) : JoinOrder[i] = i /\ (JoinPassed(i) <=> i < cidx))
    /\ [][stop_event' # stop_event =>
            /\ ~stop_event
            /\ cpc = "set_stop"
            /\ \A q \in Stages : JoinPassed(q) /\ unfinished_tasks[q] = 0
            /\ Len(completed_dishes) = num_dishes]_vars
    /\ [][stop_event => stop_event' /\ cpc' # "set_stop"]_vars

\* The flag has been set in a run that carried dishes, and the run went on.
C11_Witness == stop_event /\ cpc = "metrics" /\ num_dishes >= 2

\* C12 (as claimed): a worker tests stop_event only after a get that timed
\* out, so every exit from the loop directly follows an empty poll of the
\* worker's own queue, never the completion of a dish.
C12_ExitOnlyAfterEmptyPoll ==
    \A k \in Stages : wpc[k] = "done" => wlast[k] = "empty"

\* C12 (amended): a worker tests stop_event at the top of every iteration: on
\* start, after a get that timed out and after the task_done that ends the
\* loop body. It leaves its loop only in that test, with stop_event set, and
\* whenever it does its input queue is empty with unfinished_tasks = 0 (a
\* poll would have timed out); it never leaves between get and task_done.
C12_ExitOnlyAtFlagTest ==
    /\ [](\A k \in Stages :
            wpc[k] \in {"loop", "done"} => wlast[k] \in {"start", "empty", "task_done"})
    /\ [][\A k \in Stages :
            (wpc'[k] = "done" /\ wpc[k] # "done") =>
                /\ wpc[k] = "loop"
                /\ stop_event
                /\ queue[k] = <<>>
                /\ unfinished_tasks[k] = 0
                /\ wlast'[k] = wlast[k]]_vars

\* A worker has left its loop straight after completing a dish, without an
\* empty poll in between.
C12_Witness == \E k \in Stages : wpc[k] = "done" /\ wlast[k] = "task_done"

\* The number of dishes worker k has handed on (to the next queue, or to
\* completed_dishes for the store worker).
Handed(k) == IF k < NumStages THEN n_put[k + 1] ELSE Len(completed_dishes)

\* Worker k has dequeued a dish that it has not handed on yet.
InHands(k) == n_get[k] > Handed(k)

\* How often dish d occurs in sequence seq.
Occurrences(seq, d) == Cardinality({i \in 1..Len(seq) : seq[i] = d})

\* The number of places (queue buffers, workers' hands, completed_dishes)
\* that hold dish d.
Places(d) ==
    Occurrences(queue[1], d) + Occurrences(queue[2], d) + Occurrences(queue[3], d)
    + Occurrences(queue[4], d) + Occurrences(completed_dishes, d)
    + Cardinality({k \in Stages : InHands(k) /\ dish[k] = d})

\* C13: no dish is in two workers' hands at once; a dish's status is
\* assigned only by the one worker that has it in hand (dequeued, not yet
\* handed on), so never after the hand-off and never once it is in
\* completed_dishes.
C13_ExclusiveOwnership ==
    /\ [](\A k, j \in Stages :
            (k # j /\ InHands(k) /\ InHands(j)) => dish[k] # dish[j])
    /\ [][\A d \in Dishes :
            history'[d] # history[d] =>
                /\ \E k \in Stages : wpc[k] = "set_status" /\ InHands(k) /\ dish[k] = d
                /\ Places(d) = 1
                /\ \A q \in Stages : Occurrences(queue[q], d) = 0
                /\ Occurrences(completed_dishes, d) = 0]_vars

\* Two workers have a dish in hand at the same time, each about to hand it on.
C13_Witness ==
    \E k, j \in Stages :
        /\ k # j
        /\ InHands(k) /\ InHands(j)
        /\ wpc[k] = "put" /\ wpc[j] = "put"

\* C14: for each queue the dishes got so far are, in order, the first of
\* the dishes put so far, and the buffer holds the rest in put order.
C14_Fifo ==
    \A q \in Stages :
        /\ Len(get_log[q]) <= Len(put_log[q])
        /\ get_log[q] = SubSeq(put_log[q], 1, Len(get_log[q]))
        /\ put_log[q] = get_log[q] \o queue[q]

\* Two dishes wait in a queue fed by a worker while dishes have already
\* been taken from it.
C14_Witness ==
    \E q \in Stages :
        q > 1 /\ Len(queue[q]) >= 2 /\ Len(put_log[q - 1]) >= 2

\* C15: stop_event is never set while a worker has a dish between get and
\* task_done; from then on nothing is dequeued and no status is assigned, and
\* under fair scheduling all four workers leave their loops.
C15_IdleAtStop ==
    /\ [](stop_event =>
            \A k \in Stages :
                /\ ~Holds(k) /\ ~InHands(k)
                /\ wpc[k] \in {"loop", "get", "done"}
                /\ queue[k] = <<>>)
    /\ [][stop_event => n_get' = n_get /\ history' = history /\ queue' = queue]_vars
    /\ (stop_event ~> (\A k \in Stages : wpc[k] = "done"))

\* After a run that carried dishes the flag is set and every worker has left.
C15_Witness ==
    /\ stop_event
    /\ num_dishes >= 2
    /\ \A k \in Stages : wpc[k] = "done" /\ n_task_done[k] = num_dishes

\* C16: completed_dishes always lists the first dishes fed into queue_1 in
\* feed order (ascending dish_id), and all of them when process_parallel has
\* returned.
C16_SinkIsFeedPrefix ==
    /\ Len(completed_dishes) <= Len(put_log[1])
    /\ completed_dishes = SubSeq(put_log[1], 1, Len(completed_dishes))
    /\ \A i \in 1..Len(completed_dishes) : completed_dishes[i] = i
    /\ cpc = "returned" => completed_dishes = [i \in 1..num_dishes |-> i]

\* A later dish is still under way while an earlier one is in
\* completed_dishes.
C16_Witness ==
    /\ Len(completed_dishes) >= 1
    /\ Len(completed_dishes) < num_dishes
    /\ \E k \in Stages : InHands(k)

\* C17: a dish's place determines its status: queue q's buffer holds dishes
\* with the q-th status (dirty, pre-rinsed, washed, dried), completed_dishes
\* holds stored dishes; every dish fed so far is in exactly one place (one
\* buffer, one worker's hands or completed_dishes) and no other dish is in
\* any.
C17_StatusByPlace ==
    /\ \A q \in Stages : \A i \in 1..Len(queue[q]) :
            status[queue[q][i]] = StatusOrder[q]
    /\ \A i \in 1..Len(completed_dishes) : status[completed_dishes[i]] = "stored"
    /\ \A d \in Dishes : Places(d) = (IF d <= n_put[1] THEN 1 ELSE 0)

\* One dish waits in the buffer of a later queue while another is in a
\* worker's hands.
C17_Witness ==
    /\ \E q \in Stages : q > 1 /\ queue[q] # <<>>
    /\ \E k \in Stages : k > 1 /\ InHands(k)

====
